---------------------------- MODULE Spec2Model ----------------------------
(***************************************************************************)
(* pow-shield: the edge validator (PowCloudflare), the Worker that calls   *)
(* it, and the origin verifier (PowServer), as one state machine.          *)
(*                                                                         *)
(* Strings are sequences of one-character strings, so that concatenation,  *)
(* parseInt and the per-character loops of the code are computed and not   *)
(* assumed.  An absent header (Headers.get -> null, headers[k] ->          *)
(* undefined) is the value Null.                                           *)
(***************************************************************************)
EXTENDS Integers, Sequences, FiniteSets

(***************************************************************************)
(* Strings                                                                 *)
(***************************************************************************)
Null == <<"null">>

Colon == <<":">>

Digits == <<"0", "1", "2", "3", "4", "5", "6", "7", "8", "9">>

HexDigits == <<"0", "1", "2", "3", "4", "5", "6", "7", "8", "9",
               "a", "b", "c", "d", "e", "f">>

\* The characters the model's strings are made of.
Alphabet == HexDigits \o <<":", "/", "*", "-", "n", "m", "p", "s", "t", "x", "r">>

AlphabetSet == {Alphabet[i] : i \in 1..Len(Alphabet)}

\* The character code of a character (its place in the alphabet).
CodeOf == [c \in AlphabetSet |-> CHOOSE i \in 1..Len(Alphabet) : Alphabet[i] = c]

Code(c) == CodeOf[c]

\* The alphabet starts with the hex digits, and those with the decimal digits.
IsDigit(c) == c \in AlphabetSet /\ CodeOf[c] <= 10

DigitValue(c) == CodeOf[c] - 1

IsHex(c) == c \in AlphabetSet /\ CodeOf[c] <= 16

HexValue(c) == CodeOf[c] - 1

\* !value of the code: a header that is absent, or present and empty.
Falsy(s) == s = Null \/ s = <<>>

RECURSIVE NatToString(_)
NatToString(n) ==
    IF n < 10 THEN <<Digits[n + 1]>>
    ELSE NatToString(n \div 10) \o <<Digits[(n % 10) + 1]>>

\* Number.prototype.toString() of an integer.
toString(n) == IF n < 0 THEN <<"-">> \o NatToString(0 - n) ELSE NatToString(n)

RECURSIVE DigitsPrefixValue(_, _, _)
DigitsPrefixValue(s, i, acc) ==
    IF i > Len(s) \/ ~IsDigit(s[i]) THEN acc
    ELSE DigitsPrefixValue(s, i + 1, acc * 10 + DigitValue(s[i]))

\* parseInt(s, 10) reads an optional sign, then the longest run of digits
\* (Headers.get has already trimmed white space).  parseIntIsNaN(s): there is
\* no digit to read, the result is NaN.  parseInt(s): the number otherwise.
FirstDigitAt(s) == IF Len(s) >= 1 /\ s[1] \in {"-", "+"} THEN 2 ELSE 1

parseIntIsNaN(s) == FirstDigitAt(s) > Len(s) \/ ~IsDigit(s[FirstDigitAt(s)])

parseInt(s) ==
    IF Len(s) >= 1 /\ s[1] = "-"
    THEN 0 - DigitsPrefixValue(s, 2, 0)
    ELSE DigitsPrefixValue(s, FirstDigitAt(s), 0)

\* String.prototype.startsWith
startsWith(s, prefix) ==
    Len(prefix) <= Len(s) /\ SubSeq(s, 1, Len(prefix)) = prefix

\* String.prototype.endsWith('*')
endsWithStar(s) == Len(s) >= 1 /\ s[Len(s)] = "*"

(***************************************************************************)
(* CryptoUtils.  SHA-256 and HMAC are modelled as ideal functions: the     *)
(* digest is a hex string that is a deterministic, collision-free function *)
(* of the input.  Its first hex character mixes all input characters (so   *)
(* the leading zero bits vary with the nonce); the rest spells the input,  *)
(* two hex characters per input character.                                 *)
(***************************************************************************)
RECURSIVE SumCodes(_)
SumCodes(s) == IF s = <<>> THEN 0 ELSE Code(Head(s)) + SumCodes(Tail(s))

RECURSIVE HexEncode(_)
HexEncode(s) ==
    IF s = <<>> THEN <<>>
    ELSE <<HexDigits[(Code(Head(s)) \div 16) + 1], HexDigits[(Code(Head(s)) % 16) + 1]>>
         \o HexEncode(Tail(s))

sha256(data) == <<HexDigits[(SumCodes(data) % 16) + 1]>> \o HexEncode(data)

\* algorithm === 'sha256' selects HmacSHA256, anything else HmacSHA512.  The
\* two are different keyed functions; "ff" (no character code) separates the
\* key from the message.
hmac(data, secret, algorithm) ==
    (IF algorithm = "sha256" THEN <<"2">> ELSE <<"5">>)
        \o <<HexDigits[(SumCodes(secret \o data) % 16) + 1]>>
        \o HexEncode(secret) \o <<"f", "f">> \o HexEncode(data)

\* parseInt(c, 16).toString(2).padStart(4, '0') for one character: four bits
\* for a hex digit, "0NaN" for any other character.
\* parseInt(c, 16).toString(2) without padStart(4, '0').
NibbleUnpadded(c) ==
    IF IsHex(c)
    THEN LET v == HexValue(c)
             padded == <<Digits[(v \div 8) + 1], Digits[((v \div 4) % 2) + 1],
                         Digits[((v \div 2) % 2) + 1], Digits[(v % 2) + 1]>>
             first == IF v >= 8 THEN 1 ELSE IF v >= 4 THEN 2 ELSE IF v >= 2 THEN 3 ELSE 4
         IN  SubSeq(padded, first, 4)
    ELSE <<"N", "a", "N">>

Nibble(c) ==
    IF IsHex(c)
    THEN LET v == HexValue(c)
         IN  <<Digits[(v \div 8) + 1], Digits[((v \div 4) % 2) + 1],
               Digits[((v \div 2) % 2) + 1], Digits[(v % 2) + 1]>>
    ELSE <<"0", "N", "a", "N">>

RECURSIVE Binary(_)
Binary(hash) == IF hash = <<>> THEN <<>> ELSE Nibble(Head(hash)) \o Binary(Tail(hash))

\* A test of the last of the required bits only.
hasLeadingZerosLastBit(hash, difficulty) ==
    LET binary == Binary(hash)
    IN  difficulty = 0 \/ (difficulty <= Len(binary) /\ binary[difficulty] = "0")

\* binary[i] !== '0' for i = 0 .. difficulty-1; binary[i] is undefined past
\* the end of the string.
hasLeadingZeros(hash, difficulty) ==
    LET binary == Binary(hash)
    IN  \A i \in 1..difficulty : i <= Len(binary) /\ binary[i] = "0"

(***************************************************************************)
(* lru-cache (max, ttl; no autopurge, no age update on get/has).  The      *)
(* cache is the list of its entries from least to most recently used.      *)
(***************************************************************************)
\* An entry that is stale from the last millisecond of its ttl.
IsStaleAtTtl(e, now) == e.ttl # 0 /\ e.start # 0 /\ now - e.start >= e.ttl

\* isStale: ttl and start are set and now - start > ttl.
IsStale(e, now) == e.ttl # 0 /\ e.start # 0 /\ now - e.start > e.ttl

IndexOf(c, k) ==
    IF \E i \in 1..Len(c) : c[i].key = k
    THEN CHOOSE i \in 1..Len(c) : c[i].key = k
    ELSE 0

Without(c, i) == SubSeq(c, 1, i - 1) \o SubSeq(c, i + 1, Len(c))

\* has(k): true for a live entry; a stale entry stays where it is.
CacheHas(c, k, now) ==
    LET i == IndexOf(c, k) IN i # 0 /\ ~IsStale(c[i], now)

\* get(k): a stale entry is deleted and undefined returned; a live entry
\* becomes the most recently used.  CacheGetOr(c, k, now, dflt) is
\* get(k) || dflt for the number-valued entries (undefined and 0 are falsy).
CacheGetOr(c, k, now, dflt) ==
    LET i == IndexOf(c, k)
    IN  IF i = 0 \/ IsStale(c[i], now) THEN dflt
        ELSE IF c[i].value = 0 THEN dflt ELSE c[i].value

CacheAfterGet(c, k, now) ==
    LET i == IndexOf(c, k)
    IN  IF i = 0 THEN c
        ELSE IF IsStale(c[i], now) THEN Without(c, i)
        ELSE Without(c, i) \o <<c[i]>>

\* A store without a capacity.
CacheSetUnbounded(c, k, v, ttl, now, max) ==
    LET i == IndexOf(c, k)
        e == [key |-> k, value |-> v, start |-> now, ttl |-> ttl]
    IN  IF i # 0 THEN Without(c, i) \o <<e>> ELSE c \o <<e>>

\* set(k, v, {ttl}): an existing entry is overwritten, moved to the tail and
\* its age restarted; a new entry evicts the head when the cache is full.
CacheSet(c, k, v, ttl, now, max) ==
    LET i == IndexOf(c, k)
        e == [key |-> k, value |-> v, start |-> now, ttl |-> ttl]
    IN  IF i # 0 THEN Without(c, i) \o <<e>>
        ELSE IF Len(c) >= max THEN Tail(c) \o <<e>>
        ELSE c \o <<e>>

(***************************************************************************)
(* Configuration (validateAndMergeConfig: the defaults, overwritten by the *)
(* given keys) and the values the components read from it with `|| dflt`.  *)
(***************************************************************************)
DefaultDifficulty == 4
DefaultTimestampTolerance == 30
DefaultCacheSize == 10000
DefaultRequestsPerMinute == 30
MsPerSecond == 1000
RateWindowSeconds == 60

\* x || dflt for a number of the merged configuration: 0 is falsy.
OrDefault(x, dflt) == IF x = 0 THEN dflt ELSE x

\* this.config.secret || ''
SecretOf(cfg) == IF Falsy(cfg.secret) THEN <<>> ELSE cfg.secret

Difficulty(cfg) == OrDefault(cfg.difficulty, DefaultDifficulty)

Tolerance(cfg) == OrDefault(cfg.timestampTolerance, DefaultTimestampTolerance)

CacheMax(cfg) == OrDefault(cfg.cacheSize, DefaultCacheSize)

CacheTtl(cfg) == Tolerance(cfg) * MsPerSecond

RequestsPerMinute(cfg) == OrDefault(cfg.requestsPerMinute, DefaultRequestsPerMinute)

RateTtl == RateWindowSeconds * MsPerSecond

\* A matcher that knows exact patterns only.
isProtectedEndpointExact(cfg, endpoint) ==
    /\ Len(cfg.endpoints) # 0
    /\ \E i \in 1..Len(cfg.endpoints) : endpoint = cfg.endpoints[i]

\* isProtectedEndpoint: some pattern equals the path, or ends in '*' and the
\* path starts with the pattern without its last character.
isProtectedEndpoint(cfg, endpoint) ==
    /\ Len(cfg.endpoints) # 0
    /\ \E i \in 1..Len(cfg.endpoints) :
          LET protectedEndpoint == cfg.endpoints[i]
          IN  \/ endpoint = protectedEndpoint
              \/ /\ endsWithStar(protectedEndpoint)
                 /\ startsWith(endpoint,
                               SubSeq(protectedEndpoint, 1, Len(protectedEndpoint) - 1))

\* PowServer.isProtectedEndpoint
serverIsProtectedEndpoint(cfg, endpoint) ==
    /\ Len(cfg.endpoints) # 0
    /\ \E i \in 1..Len(cfg.endpoints) :
          LET protectedEndpoint == cfg.endpoints[i]
          IN  \/ endpoint = protectedEndpoint
              \/ /\ endsWithStar(protectedEndpoint)
                 /\ startsWith(endpoint,
                               SubSeq(protectedEndpoint, 1, Len(protectedEndpoint) - 1))

\* PowClient.isProtectedEndpoint
clientIsProtectedEndpoint(cfg, endpoint) ==
    /\ Len(cfg.endpoints) # 0
    /\ \E i \in 1..Len(cfg.endpoints) :
          LET protectedEndpoint == cfg.endpoints[i]
          IN  \/ endpoint = protectedEndpoint
              \/ /\ endsWithStar(protectedEndpoint)
                 /\ startsWith(endpoint,
                               SubSeq(protectedEndpoint, 1, Len(protectedEndpoint) - 1))

(***************************************************************************)
(* Requests: the URL path and the headers the components read.             *)
(***************************************************************************)
Req(path, ts, nonce, ctx, stamp, ip, sig) ==
    [path |-> path, timestamp |-> ts, nonce |-> nonce, context |-> ctx,
     stamp |-> stamp, ip |-> ip, hmac |-> sig]

NoRequest == Req(Null, Null, Null, Null, Null, Null, Null)

\* `${timestamp}:${nonce}`
NonceKey(request) == request.timestamp \o Colon \o request.nonce

\* `${endpoint}:${timestamp}:${nonce}:${context}`
DataToHash(request) ==
    request.path \o Colon \o request.timestamp \o Colon \o request.nonce
        \o Colon \o request.context

\* `${timestamp}:${nonce}:${context}`
HmacData(request) ==
    request.timestamp \o Colon \o request.nonce \o Colon \o request.context

\* request.headers.get('CF-Connecting-IP') || ''
ClientIp(request) == IF Falsy(request.ip) THEN <<>> ELSE request.ip

\* `rate:${clientIp}`
RateKey(clientIp) == <<"r", "a", "t", "e", ":">> \o clientIp

\* Math.floor(Date.now() / 1000)
NowSeconds(ms) == ms \div MsPerSecond

(***************************************************************************)
(* PowCloudflare.  handleRequest runs without suspension from its first    *)
(* line to `await this.checkRateLimit(clientIp)` (checkRateLimit itself    *)
(* has no await, so its body runs inside the call), and from the           *)
(* resumption to its return.  EdgeSync is the first part as a function of  *)
(* the configuration, the cache, the clock and the request.                *)
(***************************************************************************)
Keys(c) == {c[i].key : i \in 1..Len(c)}

\* A limiter that writes back the count it read.
checkRateLimitNoIncrement(cfg, c, now, clientIp) ==
    LET requestsPerMinute == RequestsPerMinute(cfg)
        rateKey      == RateKey(clientIp)
        currentCount == CacheGetOr(c, rateKey, now, 0)
        afterGet     == CacheAfterGet(c, rateKey, now)
    IN  IF currentCount >= requestsPerMinute
        THEN [limitExceeded |-> TRUE, cache |-> afterGet, currentCount |-> currentCount]
        ELSE [limitExceeded |-> FALSE,
              cache |-> CacheSet(afterGet, rateKey, IF currentCount = 0 THEN 1 ELSE currentCount,
                                 RateTtl, now, CacheMax(cfg)),
              currentCount |-> currentCount]

\* A limiter that restarts the entry of an identity it rejects.
checkRateLimitExtends(cfg, c, now, clientIp) ==
    LET requestsPerMinute == RequestsPerMinute(cfg)
        rateKey      == RateKey(clientIp)
        currentCount == CacheGetOr(c, rateKey, now, 0)
        afterGet     == CacheAfterGet(c, rateKey, now)
    IN  IF currentCount >= requestsPerMinute
        THEN [limitExceeded |-> TRUE,
              cache |-> CacheSet(afterGet, rateKey, currentCount, RateTtl, now,
                                 CacheMax(cfg)),
              currentCount |-> currentCount]
        ELSE [limitExceeded |-> FALSE,
              cache |-> CacheSet(afterGet, rateKey, currentCount + 1, RateTtl, now,
                                 CacheMax(cfg)),
              currentCount |-> currentCount]

\* checkRateLimit: [limitExceeded, cache, currentCount].
checkRateLimit(cfg, c, now, clientIp) ==
    LET requestsPerMinute == RequestsPerMinute(cfg)
        rateKey      == RateKey(clientIp)
        currentCount == CacheGetOr(c, rateKey, now, 0)
        afterGet     == CacheAfterGet(c, rateKey, now)
    IN  IF currentCount >= requestsPerMinute
        THEN [limitExceeded |-> TRUE, cache |-> afterGet, currentCount |-> currentCount]
        ELSE [limitExceeded |-> FALSE,
              cache |-> CacheSet(afterGet, rateKey, currentCount + 1, RateTtl, now,
                                 CacheMax(cfg)),
              currentCount |-> currentCount]

\* A pipeline without the difficulty check.
EdgeStageNoDifficulty(cfg, c, now, request) ==
    IF ~isProtectedEndpoint(cfg, request.path) THEN "bypass"
    ELSE IF Falsy(request.timestamp) \/ Falsy(request.nonce)
            \/ Falsy(request.context) \/ Falsy(request.stamp) THEN "headers"
    ELSE IF parseIntIsNaN(request.timestamp) THEN "timestamp"
    ELSE IF NowSeconds(now) - parseInt(request.timestamp) > Tolerance(cfg) THEN "timestamp"
    ELSE IF CacheHas(c, NonceKey(request), now) THEN "replay"
    ELSE IF sha256(DataToHash(request)) # request.stamp THEN "stamp"
    ELSE IF cfg.rateLimiting THEN "rate"
    ELSE "sign"

\* A pipeline that checks the difficulty of the stamp it is given without
\* recomputing it.
EdgeStageNoStamp(cfg, c, now, request) ==
    IF ~isProtectedEndpoint(cfg, request.path) THEN "bypass"
    ELSE IF Falsy(request.timestamp) \/ Falsy(request.nonce)
            \/ Falsy(request.context) \/ Falsy(request.stamp) THEN "headers"
    ELSE IF parseIntIsNaN(request.timestamp) THEN "timestamp"
    ELSE IF NowSeconds(now) - parseInt(request.timestamp) > Tolerance(cfg) THEN "timestamp"
    ELSE IF CacheHas(c, NonceKey(request), now) THEN "replay"
    ELSE IF ~hasLeadingZeros(request.stamp, Difficulty(cfg)) THEN "difficulty"
    ELSE IF cfg.rateLimiting THEN "rate"
    ELSE "sign"

\* A pipeline whose presence check leaves out the stamp.
EdgeStageThreeHeaders(cfg, c, now, request) ==
    IF ~isProtectedEndpoint(cfg, request.path) THEN "bypass"
    ELSE IF Falsy(request.timestamp) \/ Falsy(request.nonce)
            \/ Falsy(request.context) THEN "headers"
    ELSE IF parseIntIsNaN(request.timestamp) THEN "timestamp"
    ELSE IF NowSeconds(now) - parseInt(request.timestamp) > Tolerance(cfg) THEN "timestamp"
    ELSE IF CacheHas(c, NonceKey(request), now) THEN "replay"
    ELSE IF sha256(DataToHash(request)) # request.stamp THEN "stamp"
    ELSE IF ~hasLeadingZeros(request.stamp, Difficulty(cfg)) THEN "difficulty"
    ELSE IF cfg.rateLimiting THEN "rate"
    ELSE "sign"

\* A pipeline that rejects a timestamp ahead of the clock.
EdgeStageRejectsFuture(cfg, c, now, request) ==
    IF ~isProtectedEndpoint(cfg, request.path) THEN "bypass"
    ELSE IF Falsy(request.timestamp) \/ Falsy(request.nonce)
            \/ Falsy(request.context) \/ Falsy(request.stamp) THEN "headers"
    ELSE IF parseIntIsNaN(request.timestamp) THEN "timestamp"
    ELSE IF NowSeconds(now) - parseInt(request.timestamp) > Tolerance(cfg) THEN "timestamp"
    ELSE IF parseInt(request.timestamp) - NowSeconds(now) > Tolerance(cfg) THEN "timestamp"
    ELSE IF CacheHas(c, NonceKey(request), now) THEN "replay"
    ELSE IF sha256(DataToHash(request)) # request.stamp THEN "stamp"
    ELSE IF ~hasLeadingZeros(request.stamp, Difficulty(cfg)) THEN "difficulty"
    ELSE IF cfg.rateLimiting THEN "rate"
    ELSE "sign"

\* A pipeline that rejects a timestamp exactly as old as the tolerance.
EdgeStageStaleAtTolerance(cfg, c, now, request) ==
    IF ~isProtectedEndpoint(cfg, request.path) THEN "bypass"
    ELSE IF Falsy(request.timestamp) \/ Falsy(request.nonce)
            \/ Falsy(request.context) \/ Falsy(request.stamp) THEN "headers"
    ELSE IF parseIntIsNaN(request.timestamp) THEN "timestamp"
    ELSE IF NowSeconds(now) - parseInt(request.timestamp) >= Tolerance(cfg) THEN "timestamp"
    ELSE IF CacheHas(c, NonceKey(request), now) THEN "replay"
    ELSE IF sha256(DataToHash(request)) # request.stamp THEN "stamp"
    ELSE IF ~hasLeadingZeros(request.stamp, Difficulty(cfg)) THEN "difficulty"
    ELSE IF cfg.rateLimiting THEN "rate"
    ELSE "sign"

\* The stage at which the synchronous part of handleRequest ends: a bypass, a
\* rejection, the suspension at the rate check ("rate"), or the signature
\* when rate limiting is off ("sign").
EdgeStage(cfg, c, now, request) ==
    IF ~isProtectedEndpoint(cfg, request.path) THEN "bypass"
    ELSE IF Falsy(request.timestamp) \/ Falsy(request.nonce)
            \/ Falsy(request.context) \/ Falsy(request.stamp) THEN "headers"
    ELSE IF parseIntIsNaN(request.timestamp) THEN "timestamp"
    ELSE IF NowSeconds(now) - parseInt(request.timestamp) > Tolerance(cfg) THEN "timestamp"
    ELSE IF CacheHas(c, NonceKey(request), now) THEN "replay"
    ELSE IF sha256(DataToHash(request)) # request.stamp THEN "stamp"
    ELSE IF ~hasLeadingZeros(request.stamp, Difficulty(cfg)) THEN "difficulty"
    ELSE IF cfg.rateLimiting THEN "rate"
    ELSE "sign"

\* The status of the Response a stage returns (0: no Response, null).
StageStatus(stage) ==
    CASE stage = "headers" -> 400
      [] stage \in {"timestamp", "replay", "stamp", "difficulty"} -> 403
      [] stage = "limit" -> 429
      [] OTHER -> 0

\* A validator that marks the nonce after the rate check has returned.
MarkNonceLater(cfg, c, now, request) == c

\* this.nonceCache.set(nonceKey, true)
MarkNonce(cfg, c, now, request) ==
    CacheSet(c, NonceKey(request), TRUE, CacheTtl(cfg), now, CacheMax(cfg))

\* A validator that marks the nonce of a proof it rejects for its digest or
\* its difficulty.
EdgeSyncMarksRejected(cfg, c, now, request) ==
    LET stage  == EdgeStage(cfg, c, now, request)
        marked == MarkNonce(cfg, c, now, request)
    IN  [stage |-> stage,
         cache |-> IF stage \in {"stamp", "difficulty", "rate", "sign"} THEN marked ELSE c,
         limitExceeded |-> FALSE, currentCount |-> 0, evicted |-> {}]

EdgeSync(cfg, c, now, request) ==
    LET stage  == EdgeStage(cfg, c, now, request)
        marked == MarkNonce(cfg, c, now, request)
        rate   == checkRateLimit(cfg, marked, now, ClientIp(request))
    IN  IF stage = "rate"
        THEN [stage |-> stage, cache |-> rate.cache, limitExceeded |-> rate.limitExceeded,
              currentCount |-> rate.currentCount,
              evicted |-> (Keys(c) \ Keys(marked))
                            \cup (Keys(CacheAfterGet(marked, RateKey(ClientIp(request)), now))
                                    \ Keys(rate.cache))]
        ELSE IF stage = "sign"
        THEN [stage |-> stage, cache |-> marked, limitExceeded |-> FALSE,
              currentCount |-> 0, evicted |-> Keys(c) \ Keys(marked)]
        ELSE [stage |-> stage, cache |-> c, limitExceeded |-> FALSE,
              currentCount |-> 0, evicted |-> {}]

\* A signature over the data of the stamp.
EdgeSignatureOverStampData(cfg, request) ==
    hmac(DataToHash(request), SecretOf(cfg), cfg.hmacAlgorithm)

\* CryptoUtils.hmac(hmacData, this.config.secret || '', this.config.hmacAlgorithm)
EdgeSignature(cfg, request) == hmac(HmacData(request), SecretOf(cfg), cfg.hmacAlgorithm)

\* modifiedRequest: the request with X-HMAC set to the signature.
ModifiedRequest(cfg, request) == [request EXCEPT !.hmac = EdgeSignature(cfg, request)]

\* The Worker: `if (powResponse) return powResponse; return fetch(request)`.
\* handleRequest returns null and keeps modifiedRequest to itself, so the
\* request the Worker passes to fetch is the one it received.
WorkerForwards(cfg, request) == request

(***************************************************************************)
(* PowServer.expressMiddleware: "next", or the status of the rejection.    *)
(***************************************************************************)
\* A middleware that asks for the signature and does not compare it.
expressMiddlewareNoCompare(cfg, req) ==
    IF ~isProtectedEndpoint(cfg, req.path) THEN "next"
    ELSE IF Falsy(req.hmac)
         THEN IF cfg.strictMode THEN "403" ELSE "next"
    ELSE IF Falsy(req.timestamp) \/ Falsy(req.nonce) \/ Falsy(req.context) THEN "400"
    ELSE "next"

\* A middleware that looks for the signature before it looks at the path.
expressMiddlewareSignatureFirst(cfg, req) ==
    IF Falsy(req.hmac)
    THEN IF cfg.strictMode THEN "403" ELSE "next"
    ELSE IF ~isProtectedEndpoint(cfg, req.path) THEN "next"
    ELSE IF Falsy(req.timestamp) \/ Falsy(req.nonce) \/ Falsy(req.context) THEN "400"
    ELSE IF req.hmac # hmac(HmacData(req), SecretOf(cfg), cfg.hmacAlgorithm) THEN "403"
    ELSE "next"

expressMiddlewareAlwaysStrict(cfg, req) ==
    IF ~isProtectedEndpoint(cfg, req.path) THEN "next"
    ELSE IF Falsy(req.hmac) THEN "403"
    ELSE IF Falsy(req.timestamp) \/ Falsy(req.nonce) \/ Falsy(req.context) THEN "400"
    ELSE IF req.hmac # hmac(HmacData(req), SecretOf(cfg), cfg.hmacAlgorithm) THEN "403"
    ELSE "next"

expressMiddleware(cfg, req) ==
    IF ~isProtectedEndpoint(cfg, req.path) THEN "next"
    ELSE IF Falsy(req.hmac)
         THEN IF cfg.strictMode THEN "403" ELSE "next"
    ELSE IF Falsy(req.timestamp) \/ Falsy(req.nonce) \/ Falsy(req.context) THEN "400"
    ELSE IF req.hmac # hmac(HmacData(req), SecretOf(cfg), cfg.hmacAlgorithm) THEN "403"
    ELSE "next"

\* The preHandler hook of fastifyPlugin, for a request with the given query
\* string ("" or "?..."): request.url is the path followed by the query
\* string.
fastifyPlugin(cfg, req, query) ==
    IF ~serverIsProtectedEndpoint(cfg, req.path \o query) THEN "next"
    ELSE IF Falsy(req.hmac)
         THEN IF cfg.strictMode THEN "403" ELSE "next"
    ELSE IF Falsy(req.timestamp) \/ Falsy(req.nonce) \/ Falsy(req.context) THEN "400"
    ELSE IF req.hmac # hmac(HmacData(req), SecretOf(cfg), cfg.hmacAlgorithm) THEN "403"
    ELSE "next"

\* koaMiddleware: ctx.path is the path without the query string.
koaMiddleware(cfg, req, query) ==
    IF ~serverIsProtectedEndpoint(cfg, req.path) THEN "next"
    ELSE IF Falsy(req.hmac)
         THEN IF cfg.strictMode THEN "403" ELSE "next"
    ELSE IF Falsy(req.timestamp) \/ Falsy(req.nonce) \/ Falsy(req.context) THEN "400"
    ELSE IF req.hmac # hmac(HmacData(req), SecretOf(cfg), cfg.hmacAlgorithm) THEN "403"
    ELSE "next"

(***************************************************************************)
(* State                                                                   *)
(***************************************************************************)
VARIABLES
    config,        \* PowCloudflare.config
    serverConfig,  \* PowServer.config
    nowMs,         \* the clock (Date.now(), performance.now())
    nonceCache,    \* PowCloudflare.nonceCache
    inflight,      \* handleRequest calls suspended at the rate check
    edgeLast,      \* the handleRequest call that returned last, and its result
    fwdLog,        \* history: the protected requests the edge let through
    evictedAny,    \* history: the cache has evicted an entry for capacity
    admits,        \* history: per identity, admissions since its counter entry was created
    originLast,    \* the request the origin middleware decided last, and its decision
    nreq,          \* handleRequest calls so far (the last call's number)
    ticks,         \* clock advances so far
    solver,        \* PowClient: the fetch call and its generateValidPow loop
    probe          \* the last application of a function to drawn inputs

vars == <<config, serverConfig, nowMs, nonceCache, inflight, edgeLast, fwdLog,
          evictedAny, admits, originLast, nreq, ticks, solver, probe>>

\* The state of the edge and the origin; the state of the client side.
serverVars == <<config, serverConfig, nowMs, nonceCache, inflight, edgeLast, fwdLog,
                evictedAny, admits, originLast, nreq, ticks>>
clientVars == <<solver, probe>>

\* Bounds of the model.
MaxRequests == 3
MaxCalls == 2
MaxTicks == 3
MaxInFlight == 2
TickMs == 500
StartMs == 10000

(***************************************************************************)
(* The requests of the model.  A client solves the puzzle by drawing       *)
(* nonces until the digest meets the difficulty; the model's nonces are    *)
(* one hex character long.                                                 *)
(***************************************************************************)
PathA == <<"/", "a">>
PathWild == <<"/", "b", "1">>
PathPublic == <<"/", "p">>
Endpoints == <<PathA, <<"/", "b", "*">>>>
CtxC == <<"c">>
CtxD == <<"d">>
Ip1 == <<"1">>
Ip2 == <<"2">>
IpKeys == {Ip1, Ip2, <<>>}
NonceChars == {<<HexDigits[i]>> : i \in 1..16}

Proof(path, ts, nonce, ctx, ip) ==
    Req(path, ts, nonce, ctx, sha256(path \o Colon \o ts \o Colon \o nonce \o Colon \o ctx),
        ip, Null)

Solves(cfg, path, ts, ctx, nonce) ==
    hasLeadingZeros(Proof(path, ts, nonce, ctx, Null).stamp, Difficulty(cfg))

\* The element of a non-empty set of one-character strings with the least code.
Least(S) == CHOOSE n \in S : \A m \in S : Code(n[1]) <= Code(m[1])

\* Up to two nonces that solve the puzzle.
SolvedNonces(cfg, path, ts, ctx) ==
    LET all == {n \in NonceChars : Solves(cfg, path, ts, ctx, n)}
    IN  IF all = {} THEN {}
        ELSE IF all = {Least(all)} THEN all
        ELSE {Least(all), Least(all \ {Least(all)})}

\* A nonce that does not.
UnsolvedNonces(cfg, path, ts, ctx) ==
    LET all == {n \in NonceChars : ~Solves(cfg, path, ts, ctx, n)}
    IN  IF all = {} THEN {} ELSE {Least(all)}

\* The first and the second nonce that solve the puzzle for a timestamp.
Nonce1(cfg, path, sec, ctx) == Least(SolvedNonces(cfg, path, toString(sec), ctx))

Nonce2(cfg, path, sec, ctx) ==
    Least(SolvedNonces(cfg, path, toString(sec), ctx) \ {Nonce1(cfg, path, sec, ctx)})

\* The solved proof of the first identity stamped at second t, and the one
\* of the second identity.
ProofA(cfg, t) == Proof(PathA, toString(t), Nonce1(cfg, PathA, t, CtxC), CtxC, Ip1)

ProofB(cfg, t) == Proof(PathA, toString(t), Nonce2(cfg, PathA, t, CtxC), CtxC, Ip2)

\* CryptoUtils.generateContext(userAgent, ip, method)
generateContext(userAgent, ip, method) ==
    IF method = "ip+userAgent"
    THEN sha256((IF Falsy(ip) THEN <<>> ELSE ip) \o Colon \o userAgent)
    ELSE sha256(userAgent)

\* A proof solved for the context of the caller with user agent "m" at the
\* first address, submitted from the second address by another caller.
\* (handleRequest reads no User-Agent header: a request has no such field.)
ForeignProof(cfg, sec) ==
    LET context == generateContext(<<"m">>, Ip1, "ip+userAgent")
    IN  Proof(PathA, toString(sec), Nonce1(cfg, PathA, sec, context), context, Ip2)

\* Solved proofs when the validator's clock shows `sec`: two of one
\* identity, stamped now and as long ago as the tolerance allows (a proof
\* solved earlier, or sent again), and one of another identity.
SolvedProofs(cfg, sec) ==
    {ProofA(cfg, sec), ProofA(cfg, sec - Tolerance(cfg)), ProofB(cfg, sec)}

\* A solved proof a second older than the tolerance allows, and one stamped
\* a second ahead of the validator's clock.
UntimelyProofs(cfg, sec) ==
    {ProofA(cfg, sec - Tolerance(cfg) - 1), ProofA(cfg, sec + 1)}

\* The values a header of a request is changed to: absent, empty, and
\* other strings.
TamperValues(cfg, sec) ==
    {Null, <<>>, <<"x">>, CtxD, toString(sec - Tolerance(cfg)), toString(sec) \o <<"x">>,
     Nonce2(cfg, PathA, sec, CtxC)}

\* The requests that differ from request b in one of timestamp, nonce and
\* context.
Tampered(cfg, sec, b) ==
    {[b EXCEPT !.timestamp = v] : v \in TamperValues(cfg, sec) \ {b.timestamp}}
    \cup {[b EXCEPT !.nonce = v] : v \in TamperValues(cfg, sec) \ {b.nonce}}
    \cup {[b EXCEPT !.context = v] : v \in TamperValues(cfg, sec) \ {b.context}}

\* The solved, current proof b and requests that differ from it in one
\* place: a header absent or empty, a timestamp that is no number or has a
\* number as its prefix, a stamp that is no digest of the request, one of
\* timestamp, nonce and context replaced under the same stamp, no identity,
\* other paths; and a correct digest that does not meet the difficulty.
OtherRequests(cfg, sec) ==
    LET ts == toString(sec)
        b  == ProofA(cfg, sec)
    IN  {[b EXCEPT !.timestamp = Null], [b EXCEPT !.nonce = Null],
         [b EXCEPT !.context = Null], [b EXCEPT !.stamp = Null],
         [b EXCEPT !.context = <<>>], [b EXCEPT !.nonce = <<>>],
         [b EXCEPT !.timestamp = <<"x">>],
         [b EXCEPT !.timestamp = ts \o <<"x">>],
         [b EXCEPT !.stamp = <<"0">>],
         [b EXCEPT !.context = CtxD],
         [b EXCEPT !.nonce = Nonce2(cfg, PathA, sec, CtxC)],
         [b EXCEPT !.timestamp = toString(sec - Tolerance(cfg))],
         [b EXCEPT !.ip = Null],
         [b EXCEPT !.path = PathPublic],
         Proof(PathWild, ts, Nonce1(cfg, PathWild, sec, CtxC), CtxC, Ip1)}
        \cup {Proof(PathA, ts, m, CtxC, Ip1) : m \in UnsolvedNonces(cfg, PathA, ts, CtxC)}

(***************************************************************************)
(* Initial states                                                          *)
(***************************************************************************)
EdgeConfig(secret, algorithm, cacheSize, rateLimiting, requestsPerMinute) ==
    [endpoints |-> Endpoints, secret |-> secret, difficulty |-> 2,
     timestampTolerance |-> 1, cacheSize |-> cacheSize, hmacAlgorithm |-> algorithm,
     rateLimiting |-> rateLimiting, requestsPerMinute |-> requestsPerMinute]

ServerConfig(secret, algorithm, strictMode) ==
    [endpoints |-> Endpoints, secret |-> secret, hmacAlgorithm |-> algorithm,
     strictMode |-> strictMode]

NoResult ==
    [id |-> 0, request |-> NoRequest, stage |-> "none", status |-> 0, arrivedMs |-> 0,
     seenBefore |-> FALSE, countAtCheck |-> 0, modified |-> NoRequest,
     forwarded |-> NoRequest]

NoDecision == [request |-> NoRequest, decision |-> "none"]

\* No fetch call yet; no function applied yet.
\* options.headers of a fetch call: undefined ("none"), a plain object
\* ("record") or a Headers instance ("Headers"), with its name/value pairs.
NoOptions == [kind |-> "none", entries |-> <<>>]

NoSolver ==
    [pc |-> "READY", maxRetries |-> 0, path |-> <<>>, timestamp |-> <<>>,
     context |-> <<>>, attempts |-> 0, run |-> 0, failed |-> 0, suspensions |-> 0,
     nonce |-> <<>>, stamp |-> <<>>, sent |-> NoRequest, options |-> NoOptions,
     headers |-> {}]

NoProbe ==
    [op |-> "none", endpoints |-> <<>>, path |-> <<>>, edge |-> FALSE, server |-> FALSE,
     client |-> FALSE, hash |-> <<>>, difficulty |-> 0, result |-> FALSE,
     tolerance |-> 0, age |-> 0, stage |-> "none"]

\* The validator's configurations: without rate limiting; with a ceiling of
\* one request and a cache of two entries; with a ceiling of two requests
\* and a cache that holds every entry three requests write.
EdgeConfigs ==
    {EdgeConfig(<<"s">>, "sha256", 2, FALSE, 1),
     EdgeConfig(<<"s">>, "sha256", 2, TRUE, 1),
     EdgeConfig(<<"s">>, "sha256", 5, TRUE, 2)}

\* The secrets and algorithms of the edge and of the origin.
Secrets == {<<"s">>, <<"t">>, Null}

Algorithms == {"sha256", "sha512"}

ChainEdgeConfigs ==
    {EdgeConfig(secret, algorithm, 2, FALSE, 1) : secret \in Secrets, algorithm \in Algorithms}

ServerConfigs ==
    {ServerConfig(secret, algorithm, strictMode) :
        secret \in Secrets, algorithm \in Algorithms, strictMode \in BOOLEAN}

\* The seconds the validator's clock can show.
ClockSeconds == NowSeconds(StartMs)..NowSeconds(StartMs + MaxTicks * TickMs)

\* The requests that can arrive, by configuration and clock.
EdgeRequestsTable ==
    [cfg \in EdgeConfigs \cup ChainEdgeConfigs |->
        [sec \in ClockSeconds |->
            [solved |-> SolvedProofs(cfg, sec),
             others |-> OtherRequests(cfg, sec) \cup UntimelyProofs(cfg, sec)
                            \cup {ProofA(cfg, sec), ProofA(cfg, sec - Tolerance(cfg)),
                                  ForeignProof(cfg, sec)},
             chain  |-> {ProofA(cfg, sec), [ProofA(cfg, sec) EXCEPT !.path = PathPublic]}]]]

EdgeRequests(cfg, now) == EdgeRequestsTable[cfg][NowSeconds(now)]

InitCommon ==
    /\ nowMs = StartMs
    /\ nonceCache = <<>>
    /\ inflight = <<>>
    /\ edgeLast = NoResult
    /\ fwdLog = <<>>
    /\ evictedAny = FALSE
    /\ admits = [ip \in IpKeys |-> 0]
    /\ originLast = NoDecision
    /\ nreq = 0
    /\ ticks = 0

\* validateAndMergeConfig(config, context = 'client'): what it throws, or "ok".
validateAndMergeConfig(cfg, context) ==
    IF Len(cfg.endpoints) = 0 THEN "PoW Shield requires at least one endpoint to protect"
    ELSE IF context \in {"server", "cloudflare"} /\ Falsy(cfg.secret)
    THEN "PoW Shield requires a shared secret for HMAC generation"
    ELSE "ok"

\* new PowServer(config), new PowCloudflare(config): both call
\* validateAndMergeConfig(config) without a context.
PowServerConstructor(cfg) == validateAndMergeConfig(cfg, "client")

PowCloudflareConstructor(cfg) == validateAndMergeConfig(cfg, "client")

InitClient ==
    /\ solver = NoSolver
    /\ probe = NoProbe

Init ==
    /\ config \in EdgeConfigs
    /\ serverConfig = ServerConfig(<<"s">>, "sha256", TRUE)
    /\ InitCommon
    /\ InitClient

InitChain ==
    /\ config \in ChainEdgeConfigs
    /\ serverConfig \in ServerConfigs
    /\ PowCloudflareConstructor(config) = "ok"
    /\ PowServerConstructor(serverConfig) = "ok"
    /\ InitCommon
    /\ InitClient

(***************************************************************************)
(* Actions                                                                 *)
(***************************************************************************)
\* What the specification observes of the cache when a request is checked:
\* the key has an entry that has not outlived its ttl; the live count of an
\* identity.
KeyLive(c, k, now) ==
    \E i \in 1..Len(c) : c[i].key = k /\ now - c[i].start <= c[i].ttl

LiveCount(c, clientIp, now) ==
    IF KeyLive(c, RateKey(clientIp), now)
    THEN c[IndexOf(c, RateKey(clientIp))].value
    ELSE 0

ReachesReplayCheck(stage) == stage \in {"replay", "stamp", "difficulty", "rate", "sign"}

\* The record of a finished call.
Result(id, request, stage, arrivedMs, seenBefore, countAtCheck) ==
    [id |-> id, request |-> request, stage |-> stage, status |-> StageStatus(stage),
     arrivedMs |-> arrivedMs, seenBefore |-> seenBefore, countAtCheck |-> countAtCheck,
     modified |-> IF stage = "sign" THEN ModifiedRequest(config, request) ELSE NoRequest,
     forwarded |-> IF StageStatus(stage) = 0 THEN WorkerForwards(config, request)
                   ELSE NoRequest]

\* History: entries whose key the cache has just evicted.
MarkEvicted(log, evicted) ==
    [i \in 1..Len(log) |->
        IF NonceKey(log[i].request) \in evicted THEN [log[i] EXCEPT !.evicted = TRUE]
        ELSE log[i]]

\* handleRequest(request), up to its first suspension or its return.
EdgeReceive(request) ==
    LET r    == EdgeSync(config, nonceCache, nowMs, request)
        seen == ReachesReplayCheck(r.stage) /\ KeyLive(nonceCache, NonceKey(request), nowMs)
        cnt  == IF r.stage = "rate"
                THEN LiveCount(MarkNonce(config, nonceCache, nowMs, request),
                               ClientIp(request), nowMs)
                ELSE 0
        call == [id |-> nreq + 1, request |-> request, arrivedMs |-> nowMs,
                 limitExceeded |-> r.limitExceeded, seenBefore |-> seen,
                 countAtCheck |-> cnt, evicted |-> FALSE]
    IN  /\ r.stage = "rate" => Len(inflight) < MaxInFlight
        /\ nreq' = nreq + 1
        /\ nonceCache' = r.cache
        /\ evictedAny' = (evictedAny \/ r.evicted # {})
        /\ IF r.stage = "rate"
           THEN /\ inflight' = MarkEvicted(Append(inflight, call), r.evicted)
                /\ fwdLog' = MarkEvicted(fwdLog, r.evicted)
                /\ admits' = IF r.limitExceeded THEN admits
                             ELSE [admits EXCEPT ![ClientIp(request)] =
                                      IF r.currentCount = 0 THEN 1 ELSE @ + 1]
                /\ UNCHANGED edgeLast
           ELSE /\ edgeLast' = Result(nreq + 1, request, r.stage, nowMs, seen, cnt)
                /\ inflight' = MarkEvicted(inflight, r.evicted)
                /\ fwdLog' = MarkEvicted(
                                IF r.stage = "sign"
                                THEN Append(fwdLog, [id |-> nreq + 1, request |-> request,
                                                     arrivedMs |-> nowMs, evicted |-> FALSE])
                                ELSE fwdLog, r.evicted)
                /\ UNCHANGED admits
        /\ UNCHANGED <<config, serverConfig, nowMs, originLast, ticks>>
        /\ UNCHANGED clientVars

\* The resumption of a suspended call with the rate limiter's answer.
EdgeResume(i) ==
    LET call  == inflight[i]
        stage == IF call.limitExceeded THEN "limit" ELSE "sign"
    IN  /\ edgeLast' = Result(call.id, call.request, stage, call.arrivedMs,
                              call.seenBefore, call.countAtCheck)
        /\ inflight' = Without(inflight, i)
        /\ fwdLog' = IF stage = "sign"
                     THEN Append(fwdLog, [id |-> call.id, request |-> call.request,
                                          arrivedMs |-> call.arrivedMs,
                                          evicted |-> call.evicted])
                     ELSE fwdLog
        /\ UNCHANGED <<config, serverConfig, nowMs, nonceCache, evictedAny, admits,
                       originLast, nreq, ticks>>
        /\ UNCHANGED clientVars

\* The requests that reach the origin after the edge let a request through:
\* the request the Worker passes to fetch, the request handleRequest built,
\* and that request with its signature, one of the signed values or its path
\* changed on the way, or with one or all of the proof headers removed.
OriginRequests(last) ==
    IF last.stage = "sign"
    THEN LET m == last.modified
             f == last.forwarded
         IN  {f, m,
              [f EXCEPT !.timestamp = Null],
              [f EXCEPT !.timestamp = Null, !.nonce = Null, !.context = Null,
                        !.stamp = Null],
              [m EXCEPT !.stamp = Null], [m EXCEPT !.nonce = Null],
              [m EXCEPT !.context = Null],
              [m EXCEPT !.hmac = <<"0">>], [m EXCEPT !.hmac = <<>>],
              [m EXCEPT !.hmac = Null],
              [m EXCEPT !.timestamp = @ \o <<"0">>], [m EXCEPT !.timestamp = Null],
              [m EXCEPT !.nonce = <<"x">>], [m EXCEPT !.nonce = <<>>],
              [m EXCEPT !.context = CtxD], [m EXCEPT !.context = <<>>],
              [m EXCEPT !.path = PathWild], [m EXCEPT !.path = PathPublic]}
    ELSE IF last.stage = "bypass" THEN {last.forwarded, [last.forwarded EXCEPT !.hmac = <<"0">>]}
    ELSE {}

\* An origin that remembers the request it admitted last and admits it once.
OriginRequestOnce(req) ==
    /\ originLast' =
          [request |-> req,
           decision |-> IF originLast.request = req /\ originLast.decision = "next"
                        THEN "403"
                        ELSE expressMiddleware(serverConfig, req)]
    /\ UNCHANGED <<config, serverConfig, nowMs, nonceCache, inflight, edgeLast, fwdLog,
                   evictedAny, admits, nreq, ticks>>
    /\ UNCHANGED clientVars

\* expressMiddleware(req, res, next)
OriginRequest(req) ==
    /\ originLast' = [request |-> req, decision |-> expressMiddleware(serverConfig, req)]
    /\ UNCHANGED <<config, serverConfig, nowMs, nonceCache, inflight, edgeLast, fwdLog,
                   evictedAny, admits, nreq, ticks>>
    /\ UNCHANGED clientVars

\* Time passes.
Tick ==
    /\ ticks < MaxTicks
    /\ ticks' = ticks + 1
    /\ nowMs' = nowMs + TickMs
    /\ UNCHANGED <<config, serverConfig, nonceCache, inflight, edgeLast, fwdLog,
                   evictedAny, admits, originLast, nreq>>
    /\ UNCHANGED clientVars

(***************************************************************************)
(* PowClient                                                               *)
(***************************************************************************)
DefaultMaxRetries == 5
AttemptsPerRetry == 100
MaxRetriesConfigured == 2

\* The client's configuration.
ClientConfig(maxRetries) ==
    [endpoints |-> Endpoints, difficulty |-> 2, client |-> [maxRetries |-> maxRetries]]

\* this.config.client?.maxRetries || 5
MaxRetries(cfg) == OrDefault(cfg.client.maxRetries, DefaultMaxRetries)

MaxAttempts(cfg) == MaxRetries(cfg) * AttemptsPerRetry

\* A loop that goes round once more.
solverLoopConditionInclusive(cfg, attempts) == attempts <= MaxAttempts(cfg)

\* while (attempts < maxRetries * 100)
solverLoopCondition(cfg, attempts) == attempts < MaxAttempts(cfg)

\* A loop that suspends only when it has found no stamp at all.
solverYieldsNever(attempts) == FALSE

\* if (attempts % 100 === 0) await new Promise(resolve => setTimeout(resolve, 0))
solverYields(attempts) == attempts % AttemptsPerRetry = 0

\* PowClient.fetch(url, options), to the request it sends for a path that
\* is not protected, or to the start of generateValidPow.
\* The headers fetch sends for a HeadersInit: the pairs of a plain object or
\* of a Headers instance.
RequestHeaders(headers) == {headers.entries[i] : i \in 1..Len(headers.entries)}

\* getHeaders: the four PoW headers.
PowHeaders(timestamp, nonce, context, stamp) ==
    <<<<"X-Timestamp", timestamp>>, <<"X-Nonce", nonce>>, <<"X-Context", context>>,
      <<"X-Stamp", stamp>>>>

\* { ...options.headers, ...powHeaders }: the spread copies the own
\* enumerable properties (a plain object has its pairs; a Headers instance
\* keeps its pairs in an internal list and has none, and undefined has
\* none), and a later property of the same name overwrites an earlier one.
mergedHeaders(optionsHeaders, powHeaders) ==
    LET own == IF optionsHeaders.kind = "record" THEN optionsHeaders.entries ELSE <<>>
    IN  [kind |-> "record",
         entries |-> SelectSeq(own, LAMBDA h : \A i \in 1..Len(powHeaders) :
                                                  powHeaders[i][1] # h[1])
                         \o powHeaders]

ClientFetch(path, options) ==
    LET cfg == ClientConfig(solver.maxRetries)
    IN  /\ solver.pc = "READY"
        /\ solver' =
              IF ~clientIsProtectedEndpoint(cfg, path)
              THEN [solver EXCEPT !.pc = "SENT", !.path = path, !.options = options,
                                  !.headers = RequestHeaders(options),
                                  !.sent = Req(path, Null, Null, Null, Null, Ip1, Null)]
              ELSE [solver EXCEPT !.pc = "SOLVING", !.path = path, !.options = options,
                                  !.timestamp = toString(NowSeconds(nowMs)),
                                  !.context = CtxC]
        /\ UNCHANGED <<serverVars, probe>>

\* CryptoUtils.sha256(`${endpoint}:${timestamp}:${nonce}:${context}`), by
\* endpoint, timestamp, nonce and context.
ClientStampTable ==
    [path \in {PathA, PathWild} |->
        [timestamp \in {toString(sec) : sec \in ClockSeconds} |->
            [nonce \in NonceChars |->
                [context \in {CtxC} |->
                    sha256(path \o Colon \o timestamp \o Colon \o nonce
                               \o Colon \o context)]]]]

\* A digest that leaves the context out.
ClientStampNoContext(path, timestamp, nonce, context) ==
    sha256(path \o Colon \o timestamp \o Colon \o nonce)

ClientStamp(path, timestamp, nonce, context) ==
    ClientStampTable[path][timestamp][nonce][context]

\* One round of the loop of generateValidPow with the nonce it draws.
SolverAttempt(nonce) ==
    LET cfg   == ClientConfig(solver.maxRetries)
        stamp == ClientStamp(solver.path, solver.timestamp, nonce, solver.context)
        n     == solver.attempts + 1
    IN  /\ solver.pc = "SOLVING"
        /\ solverLoopCondition(cfg, solver.attempts)
        /\ solver' =
              IF hasLeadingZeros(stamp, Difficulty(cfg))
              THEN [solver EXCEPT !.pc = "SOLVED", !.attempts = n, !.run = @ + 1,
                                  !.nonce = nonce, !.stamp = stamp]
              ELSE [solver EXCEPT !.pc = IF solverYields(n) THEN "SUSPENDED" ELSE "SOLVING",
                                  !.attempts = n, !.run = @ + 1, !.failed = @ + 1]
        /\ UNCHANGED <<serverVars, probe>>

\* The timer fires and the loop goes on.
SolverResume ==
    /\ solver.pc = "SUSPENDED"
    /\ solver' = [solver EXCEPT !.pc = "SOLVING", !.run = 0, !.suspensions = @ + 1]
    /\ UNCHANGED <<serverVars, probe>>

\* throw new Error(`Failed to generate valid PoW after ${attempts} attempts`)
SolverExhaust ==
    /\ solver.pc = "SOLVING"
    /\ ~solverLoopCondition(ClientConfig(solver.maxRetries), solver.attempts)
    /\ solver' = [solver EXCEPT !.pc = "EXHAUSTED"]
    /\ UNCHANGED <<serverVars, probe>>

\* getHeaders returns and fetch sends the request with the four headers.
ClientSend ==
    /\ solver.pc = "SOLVED"
    /\ solver' = [solver EXCEPT !.pc = "SENT",
                                !.headers = RequestHeaders(mergedHeaders(solver.options,
                                               PowHeaders(solver.timestamp, solver.nonce,
                                                          solver.context, solver.stamp))),
                                !.sent = Req(solver.path, solver.timestamp, solver.nonce,
                                             solver.context, solver.stamp, Ip1, Null)]
    /\ UNCHANGED <<serverVars, probe>>

\* fetch(url, options) with the options of the caller: no headers, a plain
\* object with a header of its own and a header named like a PoW header, and
\* a Headers instance.
Fetch ==
    \E path \in {PathA, PathPublic},
       options \in {NoOptions,
                    [kind |-> "record",
                     entries |-> <<<<"Authorization", <<"t">>>>, <<"X-Nonce", <<"x">>>>>>],
                    [kind |-> "Headers", entries |-> <<<<"Authorization", <<"t">>>>>>]} :
        ClientFetch(path, options)

FetchPublic == ClientFetch(PathPublic, NoOptions)

Attempt == \E nonce \in NonceChars : SolverAttempt(nonce)

InitSolver ==
    /\ config = EdgeConfig(<<"s">>, "sha256", 2, FALSE, 1)
    /\ serverConfig = ServerConfig(<<"s">>, "sha256", TRUE)
    /\ InitCommon
    /\ \E maxRetries \in 0..MaxRetriesConfigured :
          solver = [NoSolver EXCEPT !.maxRetries = maxRetries]
    /\ probe = NoProbe

NextSolver == Fetch \/ Attempt \/ SolverResume \/ SolverExhaust \/ ClientSend

\* The timer of a suspended loop fires, and a loop that is not suspended
\* runs on.
SpecSolver == InitSolver /\ [][NextSolver]_vars /\ WF_vars(NextSolver)

\* The request a client has sent for a path that is not protected.
ClientSent == IF solver.pc = "SENT" THEN {solver.sent} ELSE {}

Receive ==
    /\ nreq < MaxRequests
    /\ \E request \in EdgeRequests(config, nowMs).solved : EdgeReceive(request)

ReceiveAny ==
    /\ nreq < MaxCalls
    /\ \E request \in EdgeRequests(config, nowMs).others : EdgeReceive(request)

ReceiveChain ==
    /\ nreq < MaxCalls
    /\ \E request \in EdgeRequests(config, nowMs).chain \cup ClientSent :
          EdgeReceive(request)

Resume == \E i \in 1..Len(inflight) : EdgeResume(i)

Origin == \E req \in OriginRequests(edgeLast) : OriginRequest(req)

\* Solved proofs of two identities at one validator, as time passes.
Next == Receive \/ Resume \/ Tick

Spec == Init /\ [][Next]_vars

\* Well-formed and malformed requests at one validator, at one time.
NextAny == ReceiveAny \/ Resume

SpecAny == Init /\ [][NextAny]_vars

\* The edge, the Worker and the origin.
NextChain == FetchPublic \/ ReceiveChain \/ Origin

SpecChain == InitChain /\ [][NextChain]_vars

\* Solved proofs at a validator without rate limiting, each of which may be
\* sent again after it was forwarded, as time passes.
InitAgain ==
    /\ Init
    /\ ~config.rateLimiting

Resubmit ==
    /\ nreq < MaxRequests
    /\ \E j \in 1..Len(fwdLog) : EdgeReceive(fwdLog[j].request)

\* A solved proof whose context contains a colon, and the same headers with
\* the boundary between nonce and context moved to that colon.
SplitProofs(cfg, sec) ==
    LET context == <<"c", ":", "d">>
        nonce   == Nonce1(cfg, PathA, sec, context)
        proof   == Proof(PathA, toString(sec), nonce, context, Ip1)
    IN  {proof, [proof EXCEPT !.nonce = nonce \o <<":", "c">>, !.context = <<"d">>]}

ReceiveSplit ==
    /\ nreq < MaxRequests
    /\ \E request \in SplitProofs(config, NowSeconds(nowMs)) : EdgeReceive(request)

NextAgain == Receive \/ Resubmit \/ Tick \/ ReceiveSplit

SpecAgain == InitAgain /\ [][NextAgain]_vars

\* Two identities at a validator that admits two requests a minute and holds
\* three entries, over more than one rate window: the clock advances by a
\* little more than half a window.
MaxWindowTicks == 3
WindowTickMs == 31000

WindowConfig == EdgeConfig(<<"s">>, "sha256", 3, TRUE, 2)

WindowRequestsTable ==
    [sec \in {NowSeconds(StartMs + k * WindowTickMs) : k \in 0..MaxWindowTicks} |->
        {ProofA(WindowConfig, sec),
         Proof(PathA, toString(sec), Nonce1(WindowConfig, PathA, sec, CtxD), CtxD, Ip2)}]

InitWindow ==
    /\ config = WindowConfig
    /\ serverConfig = ServerConfig(<<"s">>, "sha256", TRUE)
    /\ InitCommon
    /\ InitClient

ReceiveWindow ==
    /\ nreq < MaxRequests
    /\ \E request \in WindowRequestsTable[NowSeconds(nowMs)] : EdgeReceive(request)

TickWindow ==
    /\ ticks < MaxWindowTicks
    /\ ticks' = ticks + 1
    /\ nowMs' = nowMs + WindowTickMs
    /\ UNCHANGED <<config, serverConfig, nonceCache, inflight, edgeLast, fwdLog,
                   evictedAny, admits, originLast, nreq>>
    /\ UNCHANGED clientVars

\* A request the edge has signed, now or earlier, is presented to the origin.
OriginAgain ==
    \E j \in 1..Len(fwdLog) : OriginRequest(ModifiedRequest(config, fwdLog[j].request))

NextWindow == ReceiveWindow \/ Resume \/ TickWindow \/ OriginAgain

SpecWindow == InitWindow /\ [][NextWindow]_vars

(***************************************************************************)
(* The functions of the library applied to drawn inputs.                   *)
(***************************************************************************)
MaxTolerance == 2
MaxPatterns == 2
MaxDigestLen == 3
MaxBits == 13

\* Paths and patterns: exact, wildcard, the wildcard alone, a path that is
\* a pattern's prefix, a path that continues an exact pattern, the empty
\* path.
ProbePaths ==
    {PathA, PathWild, PathPublic, <<"/", "b">>, <<"/">>, <<"/", "a", "1">>,
     <<"/", "b", "*">>, <<>>}

ProbePatterns == {PathA, <<"/", "b", "*">>, <<"*">>, <<"/", "a", "*">>, <<"/", "p", "1">>}

RECURSIVE ListsUpTo(_, _)
ListsUpTo(S, n) ==
    IF n = 0 THEN {<<>>}
    ELSE LET shorter == ListsUpTo(S, n - 1)
         IN  shorter \cup {Append(l, x) : l \in {k \in shorter : Len(k) = n - 1}, x \in S}

EndpointLists == ListsUpTo(ProbePatterns, MaxPatterns)

\* Digests: hex strings of up to MaxDigestLen characters over digits whose
\* leading zero bits number 4, 3, 1 and 0.
ProbeHexChars == {<<"0">>, <<"1">>, <<"4">>, <<"f">>}

RECURSIVE HexStringsUpTo(_)
HexStringsUpTo(n) ==
    IF n = 0 THEN {<<>>}
    ELSE LET shorter == HexStringsUpTo(n - 1)
         IN  shorter \cup {l \o x : l \in {k \in shorter : Len(k) = n - 1},
                                     x \in ProbeHexChars}

ProbeDigests == HexStringsUpTo(MaxDigestLen)

\* The validator configured with a tolerance, and a request of a given age.
FreshnessConfig(tolerance) ==
    [EdgeConfig(<<"s">>, "sha256", 2, FALSE, 1) EXCEPT !.timestampTolerance = tolerance]

AgedRequest(now, age) == Proof(PathA, toString(NowSeconds(now) - age), <<"0">>, CtxC, Ip1)

\* One application per behaviour.
\* this.isProtectedEndpoint(path) of the edge, the origin and the client.
ProbeEndpoint ==
    \E endpoints \in EndpointLists, path \in ProbePaths :
        /\ probe = NoProbe
        /\ probe' = [NoProbe EXCEPT
                        !.op = "isProtectedEndpoint", !.endpoints = endpoints,
                        !.path = path,
                        !.edge = isProtectedEndpoint([endpoints |-> endpoints], path),
                        !.server = serverIsProtectedEndpoint([endpoints |-> endpoints], path),
                        !.client = clientIsProtectedEndpoint([endpoints |-> endpoints], path)]
        /\ UNCHANGED <<serverVars, solver>>

\* CryptoUtils.hasLeadingZeros(hash, difficulty)
ProbeLeadingZeros ==
    \E hash \in ProbeDigests, difficulty \in 0..MaxBits :
        /\ probe = NoProbe
        /\ probe' = [NoProbe EXCEPT
                        !.op = "hasLeadingZeros", !.hash = hash, !.difficulty = difficulty,
                        !.result = hasLeadingZeros(hash, difficulty)]
        /\ UNCHANGED <<serverVars, solver>>

\* The ages of the requests: around the configured tolerances and around
\* the default one, and negative for the timestamps ahead of the clock, by
\* a second, by more than the default tolerance and by days.
MaxFutureSeconds == 1000000

ProbeAges ==
    0..(MaxTolerance + 1) \cup {DefaultTimestampTolerance, DefaultTimestampTolerance + 1}
        \cup {0 - 1, 0 - (DefaultTimestampTolerance + 1), 0 - MaxFutureSeconds}

\* handleRequest of a validator with a configured tolerance, given a request
\* whose timestamp is `age` seconds behind the validator's clock.
ProbeFreshness ==
    \E tolerance \in 0..MaxTolerance, age \in ProbeAges :
        /\ probe = NoProbe
        /\ age <= NowSeconds(nowMs)
        /\ probe' = [NoProbe EXCEPT
                        !.op = "freshness", !.tolerance = tolerance, !.age = age,
                        !.stage = EdgeSync(FreshnessConfig(tolerance), <<>>, nowMs,
                                           AgedRequest(nowMs, age)).stage]
        /\ UNCHANGED <<serverVars, solver>>

InitPure ==
    /\ config = EdgeConfig(<<"s">>, "sha256", 2, FALSE, 1)
    /\ serverConfig = ServerConfig(<<"s">>, "sha256", TRUE)
    /\ nowMs \in {StartMs + later + k * TickMs : later \in {0, RateTtl}, k \in 0..MaxTicks}
    /\ nonceCache = <<>>
    /\ inflight = <<>>
    /\ edgeLast = NoResult
    /\ fwdLog = <<>>
    /\ evictedAny = FALSE
    /\ admits = [ip \in IpKeys |-> 0]
    /\ originLast = NoDecision
    /\ nreq = 0
    /\ ticks = 0
    /\ InitClient

NextPure == ProbeEndpoint \/ ProbeLeadingZeros \/ ProbeFreshness

SpecPure == InitPure /\ [][NextPure]_vars

(***************************************************************************)
(* Properties                                                              *)
(***************************************************************************)
\* C1 (SpecAny).  Admission safety of the edge validator: when handleRequest
\* has returned null for a request on a protected path, the request had all
\* four proof headers, its timestamp parsed and was no older than the
\* tolerance at arrival, its key timestamp:nonce had no live entry in the
\* cache when it was checked, its stamp is the digest of
\* endpoint:timestamp:nonce:context and meets the configured difficulty, and
\* with rate limiting enabled the count the cache held for the caller at the
\* rate check was below requestsPerMinute.
C1_AdmissionSafety ==
    LET q == edgeLast.request
    IN  (/\ edgeLast.stage # "none"
         /\ edgeLast.status = 0
         /\ isProtectedEndpoint(config, q.path))
        => /\ ~Falsy(q.timestamp) /\ ~Falsy(q.nonce) /\ ~Falsy(q.context) /\ ~Falsy(q.stamp)
           /\ ~parseIntIsNaN(q.timestamp)
           /\ NowSeconds(edgeLast.arrivedMs) - parseInt(q.timestamp) <= Tolerance(config)
           /\ ~edgeLast.seenBefore
           /\ q.stamp = sha256(DataToHash(q))
           /\ hasLeadingZeros(q.stamp, Difficulty(config))
           /\ config.rateLimiting => edgeLast.countAtCheck < RequestsPerMinute(config)

\* A rate-limited validator has forwarded the second request it was given.
C1_Witness ==
    /\ edgeLast.stage = "sign"
    /\ config.rateLimiting
    /\ edgeLast.id = 2
    /\ isProtectedEndpoint(config, edgeLast.request.path)

\* C2 (Spec).  A proof is single-use: as long as the cache has evicted no
\* entry for capacity, no proof (path, X-Timestamp, X-Nonce, X-Context,
\* X-Stamp) has been forwarded twice, whenever the requests arrived.
C2_SingleUse ==
    ~evictedAny =>
        \A i, j \in 1..Len(fwdLog) :
            i < j =>
                LET p == fwdLog[i].request
                    q == fwdLog[j].request
                IN  ~(/\ p.path = q.path /\ p.timestamp = q.timestamp /\ p.nonce = q.nonce
                      /\ p.context = q.context /\ p.stamp = q.stamp)

\* C3 (Spec).  Replay rejection: when a request with a pair (timestamp,
\* nonce) has been forwarded and its cache entry has not been evicted for
\* capacity, a later request on a protected path with the four proof headers
\* and the same pair, arriving no more than the tolerance after the first, is
\* rejected with 403.
C3_ReplayRejected ==
    LET q == edgeLast.request
    IN  \A i \in 1..Len(fwdLog) :
            (/\ fwdLog[i].id < edgeLast.id
             /\ ~fwdLog[i].evicted
             /\ isProtectedEndpoint(config, q.path)
             /\ ~Falsy(q.timestamp) /\ ~Falsy(q.nonce) /\ ~Falsy(q.context) /\ ~Falsy(q.stamp)
             /\ q.timestamp = fwdLog[i].request.timestamp
             /\ q.nonce = fwdLog[i].request.nonce
             /\ edgeLast.arrivedMs - fwdLog[i].arrivedMs <= Tolerance(config) * MsPerSecond)
            => edgeLast.status = 403

\* A forwarded proof came again half a tolerance later or more and was
\* rejected as a replay.
C3_Witness ==
    /\ edgeLast.stage = "replay"
    /\ edgeLast.status = 403
    /\ \E i \in 1..Len(fwdLog) :
          /\ fwdLog[i].id < edgeLast.id
          /\ ~fwdLog[i].evicted
          /\ fwdLog[i].request = edgeLast.request
          /\ edgeLast.arrivedMs > fwdLog[i].arrivedMs

\* C4 (Spec), as the code has it.  Check-then-mark is atomic: of the calls
\* that found their key timestamp:nonce not yet seen (those suspended at the
\* rate check and those forwarded), no two carry the same key, under any
\* interleaving, unless the earlier one's entry was evicted for capacity or
\* the later one arrived more than the tolerance after the earlier one.
C4_CheckThenMark ==
    LET passed ==
            {[id |-> inflight[i].id, key |-> NonceKey(inflight[i].request),
              arrivedMs |-> inflight[i].arrivedMs, evicted |-> inflight[i].evicted] :
                i \in 1..Len(inflight)}
            \cup {[id |-> fwdLog[i].id, key |-> NonceKey(fwdLog[i].request),
                   arrivedMs |-> fwdLog[i].arrivedMs, evicted |-> fwdLog[i].evicted] :
                     i \in 1..Len(fwdLog)}
    IN  \A x, y \in passed :
            (x.id < y.id /\ x.key = y.key)
            => \/ x.evicted
               \/ y.arrivedMs - x.arrivedMs > Tolerance(config) * MsPerSecond

\* While a call is suspended at the rate check, a second call with its key
\* has been rejected as a replay, and another call is suspended with it.
C4_Witness ==
    /\ edgeLast.stage = "replay"
    /\ Len(inflight) = 2
    /\ \E i \in 1..Len(inflight) :
          /\ inflight[i].id < edgeLast.id
          /\ ~inflight[i].evicted
          /\ NonceKey(inflight[i].request) = NonceKey(edgeLast.request)

\* C4 as it is stated: no two calls in flight at once carry the same key.
C4_AsStated ==
    \A i, j \in 1..Len(inflight) :
        i < j => NonceKey(inflight[i].request) # NonceKey(inflight[j].request)

\* C5 (Spec).  Rate boundary: with rate limiting enabled, no identity has had
\* more than requestsPerMinute distinct proofs forwarded inside one
\* 60-second window, whatever the other identities sent.
C5_RateBoundary ==
    config.rateLimiting =>
        \A ip \in IpKeys :
            Cardinality({fwdLog[i].request : i \in
                            {j \in 1..Len(fwdLog) :
                                /\ ClientIp(fwdLog[j].request) = ip
                                /\ nowMs - fwdLog[j].arrivedMs
                                      < RateWindowSeconds * MsPerSecond}})
                <= RequestsPerMinute(config)

\* C6 (Spec).  Count-then-increment is atomic: under any interleaving, the
\* counter entry of an identity holds the number of requests admitted for it
\* since the entry was created (no increment is lost), and that number never
\* exceeds requestsPerMinute.
C6_NoLostIncrement ==
    config.rateLimiting =>
        \A ip \in IpKeys :
            LET i == IndexOf(nonceCache, RateKey(ip))
            IN  i # 0 => /\ nonceCache[i].value = admits[ip]
                         /\ admits[ip] <= RequestsPerMinute(config)

\* Two calls of one identity are suspended at the rate check, both admitted,
\* and the identity's counter stands at two.
C6_Witness ==
    /\ Len(inflight) = 2
    /\ \A i \in 1..Len(inflight) :
          ClientIp(inflight[i].request) = Ip1 /\ ~inflight[i].limitExceeded
    /\ IndexOf(nonceCache, RateKey(Ip1)) # 0
    /\ nonceCache[IndexOf(nonceCache, RateKey(Ip1))].value = 2

\* C7 (Spec).  Sign and forward: the request forwarded toward the origin
\* after handleRequest accepted a request on a protected path is that
\* request with X-HMAC set to mac(timestamp:nonce:context, secret) under the
\* configured algorithm.
C7_SignAndForward ==
    edgeLast.stage = "sign" =>
        edgeLast.forwarded =
            [edgeLast.request EXCEPT
                !.hmac = hmac(HmacData(edgeLast.request), SecretOf(config),
                              config.hmacAlgorithm)]

\* C8 (SpecChain).  Signature round trip: a request on a path the origin
\* protects that carries the signature the edge computes over its timestamp,
\* nonce and context is passed on by the origin (next) when the origin has
\* the edge's secret and algorithm.
C8_SignatureRoundTrip ==
    LET req == originLast.request
    IN  (/\ originLast.decision # "none"
         /\ isProtectedEndpoint(serverConfig, req.path)
         /\ req.timestamp # Null /\ req.nonce # Null /\ req.context # Null
         /\ req.hmac = EdgeSignature(config, req)
         /\ SecretOf(serverConfig) = SecretOf(config)
         /\ serverConfig.hmacAlgorithm = config.hmacAlgorithm)
        => originLast.decision = "next"

\* The origin, in strict mode, has passed on the request the edge signed.
C8_Witness ==
    /\ originLast.decision = "next"
    /\ serverConfig.strictMode
    /\ edgeLast.stage = "sign"
    /\ originLast.request = edgeLast.modified
    /\ isProtectedEndpoint(serverConfig, originLast.request.path)

\* C9 (SpecAny), as the code has it.  Tamper detection at the edge: for a
\* proof the edge would forward now, the same request with one of
\* timestamp, nonce and context changed is rejected: with 403 when the new
\* value is not empty, with 400 when the header is emptied or removed.
C9_TamperRejected ==
    \A b \in SolvedProofs(config, NowSeconds(nowMs)) :
        LET r == EdgeSync(config, nonceCache, nowMs, b)
        IN  (r.stage \in {"rate", "sign"} /\ ~r.limitExceeded)
            => \A t \in Tampered(config, NowSeconds(nowMs), b) :
                  StageStatus(EdgeStage(config, nonceCache, nowMs, t)) =
                      IF Falsy(t.timestamp) \/ Falsy(t.nonce) \/ Falsy(t.context)
                      THEN 400 ELSE 403

\* The edge has rejected with 403 a request that is a proof it would forward
\* now with another context.
C9_Witness ==
    /\ edgeLast.status = 403
    /\ edgeLast.stage = "stamp"
    /\ \E b \in SolvedProofs(config, NowSeconds(nowMs)) :
          /\ edgeLast.request = [b EXCEPT !.context = CtxD]
          /\ EdgeStage(config, nonceCache, nowMs, b) \in {"rate", "sign"}

\* C9 as it is stated: every such change is rejected with 403.
C9_AsStated ==
    \A b \in SolvedProofs(config, NowSeconds(nowMs)) :
        LET r == EdgeSync(config, nonceCache, nowMs, b)
        IN  (r.stage \in {"rate", "sign"} /\ ~r.limitExceeded)
            => \A t \in Tampered(config, NowSeconds(nowMs), b) :
                  StageStatus(EdgeStage(config, nonceCache, nowMs, t)) = 403

\* C10 (SpecChain), as the code has it.  Signature mismatch at the origin: a
\* request on a protected path with a non-empty X-HMAC and non-empty
\* timestamp, nonce and context whose X-HMAC differs from the signature
\* recomputed with the origin's secret is rejected with 403, in strict mode
\* and in non-strict mode alike.
C10_MismatchRejected ==
    LET req == originLast.request
    IN  (/\ originLast.decision # "none"
         /\ isProtectedEndpoint(serverConfig, req.path)
         /\ ~Falsy(req.hmac)
         /\ ~Falsy(req.timestamp) /\ ~Falsy(req.nonce) /\ ~Falsy(req.context)
         /\ req.hmac # hmac(HmacData(req), SecretOf(serverConfig),
                            serverConfig.hmacAlgorithm))
        => originLast.decision = "403"

\* The origin, in non-strict mode, has rejected with 403 the signed request
\* whose signature was replaced.
C10_Witness ==
    /\ originLast.decision = "403"
    /\ ~serverConfig.strictMode
    /\ edgeLast.stage = "sign"
    /\ originLast.request = [edgeLast.modified EXCEPT !.hmac = <<"0">>]

\* C10 as it is stated: a request on a protected path whose X-HMAC is
\* present and differs from the signature recomputed over the timestamp,
\* nonce and context it carries is rejected with 403.
C10_AsStated ==
    LET req == originLast.request
    IN  (/\ originLast.decision # "none"
         /\ isProtectedEndpoint(serverConfig, req.path)
         /\ req.hmac # Null
         /\ req.timestamp # Null /\ req.nonce # Null /\ req.context # Null
         /\ req.hmac # hmac(HmacData(req), SecretOf(serverConfig),
                            serverConfig.hmacAlgorithm))
        => originLast.decision = "403"


\* C11: at the origin, a request on a protected path that carries no trust
\* signature is answered 403 when strictMode is on and is admitted when
\* strictMode is off, whatever its other headers are.
C11_StrictMode ==
    (/\ originLast.decision # "none"
     /\ originLast.request.path \in {PathA, PathWild}
     /\ originLast.request.hmac = Null)
        => originLast.decision = IF serverConfig.strictMode THEN "403" ELSE "next"

C11_Witness ==
    /\ originLast.decision = "next"
    /\ ~serverConfig.strictMode
    /\ originLast.request.path = PathA
    /\ originLast.request.hmac = Null
    /\ originLast.request.timestamp = Null


\* C12: at the origin, a request on a protected path whose trust signature
\* is present and which lacks any one of X-Timestamp, X-Nonce, X-Context and
\* X-Stamp is answered 400 and is not admitted.
C12_MalformedAtOrigin ==
    LET req == originLast.request
    IN  (/\ originLast.decision # "none"
         /\ req.path \in {PathA, PathWild}
         /\ ~Falsy(req.hmac)
         /\ Null \in {req.timestamp, req.nonce, req.context, req.stamp})
            => originLast.decision = "400"


\* C13: at the edge, a request on a protected path that lacks one of
\* X-Timestamp, X-Nonce, X-Context and X-Stamp is answered 400, whatever the
\* values of the headers it carries and whatever the cache holds.
C13_MissingHeaders ==
    /\ (/\ edgeLast.stage # "none"
         /\ edgeLast.request.path \in {PathA, PathWild}
         /\ Null \in {edgeLast.request.timestamp, edgeLast.request.nonce,
                      edgeLast.request.context, edgeLast.request.stamp})
            => edgeLast.status = 400
    /\ \A r \in EdgeRequests(config, nowMs).others :
            r.path \in {PathA, PathWild} =>
                \A lacking \in {[r EXCEPT !.timestamp = Null], [r EXCEPT !.nonce = Null],
                                [r EXCEPT !.context = Null], [r EXCEPT !.stamp = Null]} :
                    StageStatus(EdgeSync(config, nonceCache, nowMs, lacking).stage) = 400

C13_Witness ==
    /\ edgeLast.status = 400
    /\ edgeLast.request.path = PathA
    /\ edgeLast.request.stamp = Null
    /\ KeyLive(nonceCache, NonceKey(edgeLast.request), nowMs)


\* C14: at the edge, a request on a protected path with all four headers
\* present is answered 400 when its X-Timestamp does not parse as an integer
\* and 403 when its X-Timestamp parses and is stale.
C14_UnparsableTimestamp ==
    LET req == edgeLast.request
    IN  (/\ edgeLast.stage # "none"
         /\ req.path \in {PathA, PathWild}
         /\ ~Falsy(req.timestamp) /\ ~Falsy(req.nonce)
         /\ ~Falsy(req.context) /\ ~Falsy(req.stamp))
            => /\ parseIntIsNaN(req.timestamp) => edgeLast.status = 400
               /\ (/\ ~parseIntIsNaN(req.timestamp)
                   /\ NowSeconds(edgeLast.arrivedMs) - parseInt(req.timestamp)
                          > Tolerance(config))
                      => edgeLast.status = 403


C17_EndpointMatching ==
    LET matches(pattern, path) ==
            \/ pattern = path
            \/ /\ Len(pattern) >= 1
               /\ pattern[Len(pattern)] = "*"
               /\ Len(path) >= Len(pattern) - 1
               /\ \A i \in 1..(Len(pattern) - 1) : path[i] = pattern[i]
    IN  probe.op = "isProtectedEndpoint" =>
            /\ probe.edge
                  = (\E i \in 1..Len(probe.endpoints) : matches(probe.endpoints[i], probe.path))
            /\ probe.server = probe.edge
            /\ probe.client = probe.edge

C17_Witness ==
    /\ probe.op = "isProtectedEndpoint"
    /\ probe.endpoints = Endpoints
    /\ probe.path = PathWild
    /\ probe.edge /\ probe.server /\ probe.client

\* C18: for every hex digest d and bit count b >= 0, hasLeadingZeros(d, b) is
\* true iff b <= 4 * len(d) and the first b bits of d (four bits per hex
\* character, most significant first) are zero; so b = 0 is true also for
\* the empty digest, b > 4 * len(d) is false, and a digest that starts with
\* 00f passes 8 and fails 9.
C18_CountsBits ==
    LET d == probe.hash
        b == probe.difficulty
        weight(i) == IF (i - 1) % 4 = 0 THEN 8 ELSE IF (i - 1) % 4 = 1 THEN 4
                     ELSE IF (i - 1) % 4 = 2 THEN 2 ELSE 1
        bit(i) == (HexValue(d[((i - 1) \div 4) + 1]) \div weight(i)) % 2
    IN  probe.op = "hasLeadingZeros" =>
            /\ probe.result = (b <= 4 * Len(d) /\ \A i \in 1..b : bit(i) = 0)
            /\ b = 0 => probe.result
            /\ b > 4 * Len(d) => ~probe.result
            /\ startsWith(d, <<"0", "0", "f">>) =>
                    /\ b = 8 => probe.result
                    /\ b = 9 => ~probe.result

C18_Witness ==
    /\ probe.op = "hasLeadingZeros"
    /\ probe.hash = <<"0", "0", "f">>
    /\ probe.difficulty = 9
    /\ ~probe.result


\* C16: for a path that matches no configured pattern, the edge passes the
\* request through (returns null) whatever its headers are and leaves the
\* replay cache and the rate counters as they were, the origin middleware
\* admits it whatever its headers and strict mode are, and the client sends
\* it without solving a puzzle; such a request is never rejected.
C16_Bypass ==
    LET public == [ProofA(config, NowSeconds(nowMs)) EXCEPT !.path = PathPublic]
        variants ==
            {public, [public EXCEPT !.timestamp = Null], [public EXCEPT !.stamp = <<"0">>],
             [public EXCEPT !.timestamp = <<"x">>], [public EXCEPT !.hmac = <<"0">>],
             [public EXCEPT !.ip = Ip2],
             Req(PathPublic, Null, Null, Null, Null, Null, Null)}
    IN  /\ (edgeLast.stage # "none" /\ edgeLast.request.path = PathPublic)
                => /\ edgeLast.stage = "bypass"
                   /\ edgeLast.status = 0
                   /\ edgeLast.forwarded = edgeLast.request
        /\ \A r \in variants :
                LET call == EdgeSync(config, nonceCache, nowMs, r)
                IN  /\ call.stage = "bypass"
                    /\ call.cache = nonceCache
                    /\ call.evicted = {}
                    /\ expressMiddleware(serverConfig, r) = "next"
        /\ (originLast.decision # "none" /\ originLast.request.path = PathPublic)
                => originLast.decision = "next"
        /\ (solver.pc = "SENT" /\ solver.path = PathPublic)
                => /\ solver.attempts = 0
                   /\ solver.sent = Req(PathPublic, Null, Null, Null, Null, Ip1, Null)

C16_Witness ==
    /\ solver.pc = "SENT"
    /\ edgeLast.stage = "bypass"
    /\ edgeLast.request = solver.sent
    /\ nonceCache # <<>>
    /\ originLast.request = edgeLast.forwarded
    /\ originLast.decision = "next"
    /\ serverConfig.strictMode


C20_CooperativeYield ==
    /\ [](solver.run <= AttemptsPerRetry)
    /\ [](solver.pc \in {"SOLVING", "SUSPENDED"} =>
              solver.attempts = solver.suspensions * AttemptsPerRetry + solver.run)
    /\ [][/\ solver.pc = "SUSPENDED" =>
                /\ solver'.pc = "SOLVING"
                /\ solver'.attempts = solver.attempts
                /\ solver'.failed = solver.failed
                /\ solver'.maxRetries = solver.maxRetries
                /\ solver'.suspensions = solver.suspensions + 1
          /\ solver'.attempts \in {solver.attempts, solver.attempts + 1}
          /\ solver'.attempts = solver.attempts + 1 => solver.pc = "SOLVING"]_vars

C20_Witness ==
    /\ solver.pc = "SOLVING"
    /\ solver.suspensions = 1
    /\ solver.run = 1
    /\ solver.attempts = AttemptsPerRetry + 1


\* C21: for every proof (timestamp, nonce, context, stamp) that getHeaders
\* returns for an endpoint, the digest of endpoint:timestamp:nonce:context
\* is the stamp, and a validator configured with the client's difficulty
\* accepts the proof at its digest and difficulty steps.
C21_SolvedRoundTrip ==
    LET proof == Req(solver.path, solver.timestamp, solver.nonce, solver.context,
                     solver.stamp, Ip1, Null)
    IN  (/\ solver.pc \in {"SOLVED", "SENT"}
         /\ solver.path # PathPublic
         /\ config.difficulty = ClientConfig(solver.maxRetries).difficulty)
            => /\ sha256(DataToHash(proof)) = proof.stamp
               /\ hasLeadingZeros(sha256(DataToHash(proof)), Difficulty(config))
               /\ EdgeSync(config, nonceCache, nowMs, proof).stage \in {"rate", "sign"}
               /\ solver.pc = "SENT" => solver.sent = proof

C21_Witness ==
    /\ solver.pc = "SENT"
    /\ solver.path = PathA
    /\ solver.attempts > AttemptsPerRetry
    /\ solver.sent.stamp = sha256(DataToHash(solver.sent))


\* C22: a component that signs or verifies is never constructed with a
\* missing secret, so no request is ever verified with an absent secret:
\* when the origin verifier has compared a request's signature, its
\* configuration holds a secret.
C22_FailFast ==
    LET req == originLast.request
    IN  (/\ originLast.decision \in {"next", "403"}
         /\ req.path \in {PathA, PathWild}
         /\ ~Falsy(req.hmac) /\ ~Falsy(req.timestamp)
         /\ ~Falsy(req.nonce) /\ ~Falsy(req.context))
            => ~Falsy(serverConfig.secret)


\* C23: the rate window of an identity is fixed: it starts at the first
\* admission of the window and ends 60 seconds later, and the later
\* admissions do not move its end.  So the live counter entry of an
\* identity dates from the first of the admissions it counts: the
\* admissions since the entry's start are as many as its value.
C23_FixedWindow ==
    LET i == IndexOf(nonceCache, RateKey(Ip1))
    IN  (inflight = <<>> /\ KeyLive(nonceCache, RateKey(Ip1), nowMs))
            => Cardinality({j \in 1..Len(fwdLog) :
                               /\ ClientIp(fwdLog[j].request) = Ip1
                               /\ fwdLog[j].arrivedMs >= nonceCache[i].start})
                  = nonceCache[i].value


\* C24: the rate counter of an identity lies between 0 and
\* requestsPerMinute, does not decrease while its window runs, and returns
\* to zero only when its entry expires after 60 seconds, never because of
\* other cache traffic.  So while an admission of the identity is less than
\* 60 seconds old, its counter is live and counts at least that admission.
C24_CounterInvariant ==
    config.rateLimiting =>
        \A ip \in {Ip1, Ip2} :
            /\ LiveCount(nonceCache, ip, nowMs) \in 0..RequestsPerMinute(config)
            /\ (\E j \in 1..Len(fwdLog) :
                    /\ ClientIp(fwdLog[j].request) = ip
                    /\ nowMs - fwdLog[j].arrivedMs <= RateTtl)
                  => LiveCount(nonceCache, ip, nowMs) >= 1


\* C25 (as stated): a request that was forwarded once and is submitted
\* again, unchanged, after the tolerance window has elapsed since its first
\* arrival is forwarded again.
C25_AsStated ==
    \A j \in 1..Len(fwdLog) :
        (/\ fwdLog[j].request = edgeLast.request /\ fwdLog[j].id < edgeLast.id
         /\ edgeLast.arrivedMs - fwdLog[j].arrivedMs > CacheTtl(config)
         /\ ~config.rateLimiting /\ ~edgeLast.seenBefore)
            => edgeLast.status = 0

\* C25 (amended): a request that was forwarded once and is submitted again,
\* unchanged, after the lifetime of its cache entry is rejected with 403 at
\* the timestamp step when its timestamp is older than the tolerance; only
\* while the timestamp is still fresh is it treated as a new request
\* (forwarded or rate limited), unless its key has been marked again.
C25_AfterWindow ==
    \A j \in 1..Len(fwdLog) :
        (/\ fwdLog[j].request = edgeLast.request /\ fwdLog[j].id < edgeLast.id
         /\ edgeLast.arrivedMs - fwdLog[j].arrivedMs > CacheTtl(config))
            => IF NowSeconds(edgeLast.arrivedMs) - parseInt(edgeLast.request.timestamp)
                     > Tolerance(config)
               THEN edgeLast.stage = "timestamp" /\ edgeLast.status = 403
               ELSE IF edgeLast.seenBefore THEN edgeLast.stage = "replay"
               ELSE edgeLast.stage \in {"sign", "limit"}

C25_Witness ==
    \E j \in 1..Len(fwdLog) :
        /\ fwdLog[j].request = edgeLast.request /\ fwdLog[j].id < edgeLast.id
        /\ edgeLast.arrivedMs - fwdLog[j].arrivedMs > CacheTtl(config)
        /\ edgeLast.stage = "timestamp"


\* C26: a request rejected with 400 or 403 (at the header, timestamp,
\* replay, digest or difficulty step) leaves the cache, nonce marks and
\* rate counters alike, exactly as it was; and every nonce mark in the cache
\* is the key of a request whose stamp equals the recomputed digest and
\* meets the difficulty.
C26_SideEffects ==
    /\ [][(edgeLast'.id # edgeLast.id /\ edgeLast'.status \in {400, 403})
              => nonceCache' = nonceCache]_vars
    /\ [](\A i \in 1..Len(nonceCache) :
            nonceCache[i].key \notin {RateKey(ip) : ip \in IpKeys}
                => \E r \in EdgeRequests(config, nowMs).others :
                      /\ NonceKey(r) = nonceCache[i].key
                      /\ sha256(DataToHash(r)) = r.stamp
                      /\ hasLeadingZeros(r.stamp, Difficulty(config)))

C26_Witness ==
    /\ edgeLast.stage \in {"stamp", "difficulty"}
    /\ nonceCache # <<>>
    /\ \E r \in EdgeRequests(config, nowMs).others :
          EdgeSync(config, nonceCache, nowMs, r).stage = "replay"


\* C27: a proof whose context was derived from one caller's attributes is
\* not accepted when a caller with other attributes submits it.  So a
\* forwarded request that carries the context of the caller at the first
\* address (user agent "m", ip+userAgent method) comes from that address.
C27_ContextBinding ==
    (/\ edgeLast.stage = "sign"
     /\ edgeLast.request.context = generateContext(<<"m">>, Ip1, "ip+userAgent"))
        => ClientIp(edgeLast.request) = Ip1


C29_HeaderAttachment ==
    LET caller == RequestHeaders(solver.options)
        pow    == RequestHeaders([kind |-> "record",
                                  entries |-> PowHeaders(solver.timestamp, solver.nonce,
                                                         solver.context, solver.stamp)])
        names  == {h[1] : h \in pow}
    IN  solver.pc = "SENT"
            => IF solver.path = PathPublic
               THEN solver.headers = caller
               ELSE solver.headers = {h \in caller : h[1] \notin names} \cup pow


C31_FutureTimestamps ==
    LET tolerance == IF probe.tolerance = 0 THEN DefaultTimestampTolerance
                     ELSE probe.tolerance
    IN  probe.op = "freshness" =>
            /\ probe.age < 0 => probe.stage \notin {"bypass", "headers", "timestamp"}
            /\ probe.stage = "timestamp" => probe.age > tolerance

C31_Witness ==
    /\ probe.op = "freshness"
    /\ probe.age = 0 - MaxFutureSeconds
    /\ probe.tolerance = 1
    /\ probe.stage \notin {"bypass", "headers", "timestamp"}


\* C32: the origin's decision is a function of the request and of the
\* configuration only, the same at any time and after any history: a
\* request that carries a valid signature is admitted whenever it is
\* presented, however often and however old its timestamp.
C32_StatelessOrigin ==
    /\ \A j \in 1..Len(fwdLog) :
          expressMiddleware(serverConfig, ModifiedRequest(config, fwdLog[j].request)) = "next"
    /\ originLast.decision # "none"
          => /\ originLast.decision = expressMiddleware(serverConfig, originLast.request)
             /\ originLast.decision = "next"

C32_Witness ==
    /\ originLast.decision = "next"
    /\ originLast.request.path = PathA
    /\ NowSeconds(nowMs) - parseInt(originLast.request.timestamp) > Tolerance(config)
    /\ nonceCache # <<>>
    /\ Len(fwdLog) >= 2


\* C33: for every request and configuration the Express middleware, the
\* Fastify hook and the Koa middleware reach the same decision, whether or
\* not the URL of the request carries a query string.
C33_AdapterEquivalence ==
    originLast.decision # "none"
        => \A query \in {<<>>, <<"?", "x">>} :
              /\ fastifyPlugin(serverConfig, originLast.request, query) = originLast.decision
              /\ koaMiddleware(serverConfig, originLast.request, query) = originLast.decision


\* C34: distinct tuples (endpoint, timestamp, nonce, context) never give the
\* same digest input, so two forwarded requests with the same stamp have
\* the same tuple and the same replay key.
C34_UnambiguousEncoding ==
    \A i, j \in 1..Len(fwdLog) :
        LET p == fwdLog[i].request
            q == fwdLog[j].request
        IN  (DataToHash(p) = DataToHash(q) \/ p.stamp = q.stamp)
                => /\ <<p.path, p.timestamp, p.nonce, p.context>>
                         = <<q.path, q.timestamp, q.nonce, q.context>>
                   /\ NonceKey(p) = NonceKey(q)


\* C35: the signature the edge issued for a request on a path with a stamp
\* is accepted by the origin only for that request: a request the origin
\* admits on a protected path with that signature has that path and that
\* stamp.
C35_SignatureBound ==
    LET req == originLast.request
        m   == edgeLast.modified
    IN  (/\ edgeLast.stage = "sign"
         /\ originLast.decision = "next"
         /\ isProtectedEndpoint(serverConfig, req.path)
         /\ ~Falsy(req.hmac)
         /\ req.hmac = m.hmac)
            => req.path = m.path /\ req.stamp = m.stamp


\* C36: the configured difficulty d is the enforced one, d = 0 included: an
\* edge configured with d passes a digest-correct stamp at the difficulty
\* step iff the stamp has at least d leading zero bits, and a client
\* configured with d stops at a stamp iff it has at least d leading zero
\* bits.
C36_ConfiguredDifficulty ==
    LET d == probe.difficulty
    IN  probe.op = "hasLeadingZeros" =>
            \A nonce \in NonceChars :
                LET r == Proof(PathA, toString(NowSeconds(nowMs)), nonce, CtxC, Ip1)
                IN  /\ (EdgeStage([config EXCEPT !.difficulty = d], <<>>, nowMs, r)
                            # "difficulty")
                        = hasLeadingZeros(r.stamp, d)
                    /\ hasLeadingZeros(r.stamp,
                                       Difficulty([ClientConfig(0) EXCEPT !.difficulty = d]))
                        = hasLeadingZeros(r.stamp, d)


\* C37: hasLeadingZeros is monotone in the bit count: a digest that meets a
\* difficulty meets every lower one, and a digest that fails a difficulty
\* fails every higher one.
C37_Monotone ==
    probe.op = "hasLeadingZeros" =>
        /\ probe.result
              => \A b1 \in 0..probe.difficulty : hasLeadingZeros(probe.hash, b1)
        /\ ~probe.result
              => \A b2 \in probe.difficulty..(MaxBits + 1) : ~hasLeadingZeros(probe.hash, b2)

C37_Witness ==
    /\ probe.op = "hasLeadingZeros"
    /\ probe.result
    /\ probe.difficulty = 7
    /\ probe.hash = <<"0", "1", "f">>


\* C38: rate bookkeeping does not weaken replay protection: while fewer than
\* cacheSize proofs have been marked within the lifetime window, the key of
\* every one of them is still in the cache and is rejected as a replay,
\* however many identities have been counted.
C38_RateKeepsMarks ==
    LET marked == {j \in 1..Len(fwdLog) :
                      nowMs - fwdLog[j].arrivedMs <= CacheTtl(config)}
    IN  (inflight = <<>> /\ edgeLast.stage \in {"none", "sign"}
         /\ Cardinality(marked) < config.cacheSize)
            => \A j \in marked :
                  /\ CacheHas(nonceCache, NonceKey(fwdLog[j].request), nowMs)
                  /\ EdgeStage(config, nonceCache, nowMs, fwdLog[j].request)
                        \in {"timestamp", "replay"}


\* C39: a rate-limited identity recovers: once more than 60 seconds have
\* passed since its last admitted request, its next valid, fresh, unused
\* proof is admitted, whatever was answered 429 in between; a rejection
\* neither counts nor restarts the entry, so a live counter entry dates from
\* an admission of its identity.
C39_Recovery ==
    inflight = <<>> =>
        \A ip \in {Ip1, Ip2} :
            LET admitted == {j \in 1..Len(fwdLog) : ClientIp(fwdLog[j].request) = ip}
                i == IndexOf(nonceCache, RateKey(ip))
            IN  /\ KeyLive(nonceCache, RateKey(ip), nowMs)
                    => /\ nonceCache[i].value <= RequestsPerMinute(config)
                       /\ \E j \in admitted : fwdLog[j].arrivedMs = nonceCache[i].start
                /\ (/\ admitted # {}
                    /\ \A j \in admitted : nowMs - fwdLog[j].arrivedMs > RateTtl)
                    => \A r \in WindowRequestsTable[NowSeconds(nowMs)] :
                          (/\ ClientIp(r) = ip
                           /\ EdgeStage(config, nonceCache, nowMs, r) = "rate")
                              => ~EdgeSync(config, nonceCache, nowMs, r).limitExceeded

\* Two admissions, a 429 a minute after the first of them, and the clock
\* more than a minute past the second, the proof of that second not yet sent.
C39_Witness ==
    /\ inflight = <<>>
    /\ edgeLast.stage = "limit"
    /\ ClientIp(edgeLast.request) = Ip1
    /\ Cardinality({j \in 1..Len(fwdLog) : ClientIp(fwdLog[j].request) = Ip1})
          = RequestsPerMinute(config)
    /\ \A j \in 1..Len(fwdLog) :
          ClientIp(fwdLog[j].request) = Ip1 => nowMs - fwdLog[j].arrivedMs > RateTtl
    /\ \E r \in WindowRequestsTable[NowSeconds(nowMs)] :
          /\ ClientIp(r) = Ip1
          /\ EdgeStage(config, nonceCache, nowMs, r) = "rate"
          /\ ~EdgeSync(config, nonceCache, nowMs, r).limitExceeded

=============================================================================
